---- MODULE Spec2Model ----
(***************************************************************************)
(* The session registry, tool dispatch engine and resource catalog of the  *)
(* browserbase server (src/src/puppeteer/index.ts).                        *)
(*                                                                         *)
(* The server is single-threaded: a handler runs from one suspension point *)
(* (an await on the Capability Provider or the collaboration provider) to  *)
(* the next without interleaving.  Each action below is one such run: the  *)
(* start of a tool call up to its first await, or the settlement of the    *)
(* awaited remote call and the code that follows it up to the next await.  *)
(* The providers are nondeterministic: every awaited call may fulfil or    *)
(* reject.                                                                 *)
(***************************************************************************)
EXTENDS Integers, Sequences, FiniteSets, TLC

\* ------------------------------------------------------------------ bounds
MaxCalls == 3      \* tool calls issued in one run
MaxMixed == 2      \* calls after which a run goes on only with screenshot calls
MaxItems == 2      \* {url, id} pairs in one bulk call
MaxConns == 4      \* connections the Capability Provider accepts in one run
MaxLogs == 1       \* console events raised in one run
MaxShared == 1     \* pairs in a bulk call that overlaps another call
MaxCatalogLogs == 2   \* console events raised in one run of the catalog workload
MaxUndelivered == 2   \* notifications whose delivery fails in one run
MaxText == 4          \* characters of the text the brace scanner is given
MaxHung == 1          \* remote calls that never settle in one run

Calls == 1..MaxCalls
\* caller-supplied session identifiers, in the order a run first names them
SessionOrder == << "s1", "s2" >>
SessionIds == { SessionOrder[i] : i \in 1..Len(SessionOrder) }
\* the keys of the registry: args.sessionId may be absent
Keys == SessionIds \cup {"undefined"}
\* caller-supplied screenshot names (sequences of tokens), in the order a run
\* first names them
NameOrder == << << "home" >>, << "cart" >> >>
PlainNames == { NameOrder[i] : i \in 1..Len(NameOrder) }
\* a name that holds the characters "://"
OddNames == { << "home", "://", "x" >> }
ScreenshotNames == PlainNames \cup OddNames
\* what a capture can yield as its base64 string ("" is a falsy string)
Payloads == {"", "png1", "png2"}
MsgTypes == {"log", "error"}
\* args.width and args.height of a screenshot call, as "<width>x<height>";
\* "undefined" when the caller gives neither
DefaultSizes == { "undefined" }
Sizes == { "undefined", "1024x768" }

\* --------------------------------------------------------------- tool names
\* the names of the TOOLS array, in order
TOOLS ==
  << "puppeteer_create_session", "puppeteer_navigate", "puppeteer_screenshot",
     "puppeteer_click", "puppeteer_fill", "puppeteer_evaluate",
     "puppeteer_get_content", "puppeteer_parallel_sessions",
     "notion_read_page", "notion_update_page", "notion_append_content",
     "notion_read_comments", "notion_add_comment", "notion_add_to_database" >>

NotionTools ==
  { "notion_read_page", "notion_update_page", "notion_append_content",
    "notion_read_comments", "notion_add_comment", "notion_add_to_database" }

\* tools whose case is one awaited page call inside try/catch
EvaluateTools == { "puppeteer_evaluate", "puppeteer_get_json", "puppeteer_get_content" }

\* the case labels of the switch in handleToolCall
HandledTools ==
  { "puppeteer_create_session", "puppeteer_navigate", "puppeteer_screenshot",
    "puppeteer_click", "puppeteer_fill", "puppeteer_evaluate",
    "puppeteer_get_json", "puppeteer_get_content",
    "puppeteer_parallel_sessions" } \cup NotionTools

\* the names of the tools the ListToolsRequestSchema handler returns
ListTools == { TOOLS[i] : i \in 1..Len(TOOLS) }

\* a name the switch has no case for
UnknownTools == { "puppeteer_close" }

ToolNames == HandledTools \cup UnknownTools

\* ------------------------------------------------------------------- state
VARIABLES
  browsers,       \* Map sessionId -> { browser, page }: index into conns, 0 = no entry
  consoleLogs,    \* string[]: the formatted entries, in capture order
  screenshots,    \* Map name -> base64 string, in insertion order
  conns,          \* every Browser puppeteer.connect has yielded, in order
  notifications,  \* what server.notification was called with, in order
  calls,          \* per tool call: the frame of handleToolCall and its outcome
  listing,        \* the answer of the list-resources handler, if it ran last
  reading,        \* the answer of the read-resource handler, if it ran last
  undelivered,    \* indexes of notifications whose send promise rejected
  captures,       \* history: every screenshots.set, as << name, data >>, in order
  raised          \* history: every console event, as << session, type, text >>

vars == << browsers, consoleLogs, screenshots, conns, notifications, calls,
           listing, reading, undelivered, captures, raised >>

registry == << browsers, conns >>
catalog == << consoleLogs, screenshots, notifications, undelivered, captures,
             raised >>

\* ----------------------------------------------------------------- results
NoResult ==
  [kind |-> "none", isError |-> FALSE, text |-> << >>, image |-> "",
   results |-> << >>]

\* { toolResult: { content: [{ type: "text", text }], isError } }
Envelope(isError, prefix, detail) ==
  [kind |-> "envelope", isError |-> isError, text |-> << prefix, detail >>,
   image |-> "", results |-> << >>]

\* the promise handleToolCall returned rejects with an Error carrying message
Thrown(message) ==
  [kind |-> "thrown", isError |-> FALSE, text |-> << message >>, image |-> "",
   results |-> << >>]

NoFailure == [phase |-> "none", step |-> "none"]
Failed(phase, step) == [phase |-> phase, step |-> step]

\* the message of the TypeError a member access on an undefined page raises
TypeErrorMessage == "Cannot read properties of undefined"

NoArgs ==
  [sessionId |-> "undefined", name |-> << >>, selector |-> FALSE, sessions |-> << >>,
   pageUrl |-> "", size |-> "undefined"]

SeqsUpTo(S, n) == UNION { [1..k -> S] : k \in 0..n }

NotionUrlWithId == "https://www.notion.so/0123456789abcdef0123456789abcdef"

\* what the argument payload of a call to `name` may hold, its screenshot
\* name drawn from shots and its dimensions from sizes
ArgsFor(name, shots, sizes) ==
  CASE name = "puppeteer_screenshot" ->
         { [NoArgs EXCEPT !.sessionId = s, !.name = n, !.selector = sel,
                          !.size = size] :
             s \in SessionIds, n \in shots, sel \in BOOLEAN, size \in sizes }
    [] name = "puppeteer_parallel_sessions" ->
         { [NoArgs EXCEPT !.sessionId = s, !.sessions = q] :
             s \in {"undefined", SessionOrder[1]},
             q \in SeqsUpTo(SessionIds, MaxItems) }
    [] name = "notion_read_page" ->
         { [NoArgs EXCEPT !.sessionId = s, !.pageUrl = u] :
             s \in SessionIds, u \in {"", NotionUrlWithId} }
    [] OTHER -> { [NoArgs EXCEPT !.sessionId = s] : s \in SessionIds }

\* ------------------------------------------------------------- call frames
\* name, args: the parameters of handleToolCall; defaultSession: its local;
\* creating: the Browser createNewBrowserSession holds while it awaits
\* browser.pages(); items: the coroutines of args.sessions.map(async ...);
\* result: what the call returned or threw.  History: opened (the connections
\* the call opened), solo (no other call was in flight during the call), fresh
\* (args.sessionId had no registry entry when the call arrived), failure (the
\* first failure the call met), shotAt (the viewport the page held when the
\* call's screenshot was taken), scanned (the text content the page held when
\* the call's extraction ran).
Idle ==
  [pc |-> "idle", name |-> "", args |-> NoArgs, defaultSession |-> 0,
   creating |-> 0, result |-> NoResult, items |-> << >>, opened |-> {},
   solo |-> FALSE, fresh |-> FALSE, failure |-> NoFailure, shotAt |-> "",
   scanned |-> << >>]

\* a finished call, its frame and history dropped
Forgotten == [Idle EXCEPT !.pc = "forgotten"]

\* a coroutine of the bulk call: one element of args.sessions.map(async ...)
NewItem(id) == [id |-> id, pc |-> "connect", conn |-> 0, out |-> "none"]

ItemPending(it) == it.pc \notin {"fulfilled", "rejected"}

\* handleToolCall is suspended, or coroutines it started still run
InFlight(r) ==
  \/ r.pc \notin {"idle", "returned", "forgotten"}
  \/ \E i \in 1..Len(r.items) : ItemPending(r.items[i])

Finished(r) == r.pc = "returned" /\ ~InFlight(r)

\* handleToolCall returns or throws; its locals are gone
Return(r, res, f) ==
  [r EXCEPT !.pc = "returned", !.result = res,
            !.failure = IF r.failure = NoFailure THEN f ELSE r.failure,
            !.defaultSession = 0, !.creating = 0]

\* handleToolCall suspends at the await named label
Suspend(r, label) == [r EXCEPT !.pc = label]

\* Call c's frame becomes r.  The record of a call that had finished before
\* this step is dropped: it was observable in the state the call finished in.
Update(c, r) ==
  calls' = [d \in Calls |->
              IF d = c THEN r
              ELSE IF Finished(calls[d]) THEN Forgotten ELSE calls[d]]

\* a step of no call
Other ==
  calls' = [d \in Calls |-> IF Finished(calls[d]) THEN Forgotten ELSE calls[d]]

NoReading == [kind |-> "none", uri |-> << >>, mimeType |-> "", body |-> << >>]

\* an answer of a request handler is observable for one step
Sent == listing' = << >> /\ reading' = NoReading

\* -------------------------------------------------------- helper functions
\* extractNotionPageId: the 32-character identifier of the URL, or a throw.
\* An absent pageUrl falls back to NOTION_PAGE_URL, whose default
\* "https://www.notion.so/default-page" holds no identifier.
HasNotionPageId(pageUrl) == pageUrl = NotionUrlWithId

\* the methods of the page's console object; the script-execution case
\* intercepts four of them
ConsoleMethods == { "log", "info", "warn", "error", "debug" }
Intercepted == { "log", "info", "warn", "error" }
NativeConsole == [method \in ConsoleMethods |-> "native"]

\* the Browser puppeteer.connect fulfils with, before browser.pages() settles
NewConnection(sessionId, via) ==
  [sessionId |-> sessionId, via |-> via, page |-> "pending",
   registered |-> FALSE, listener |-> FALSE, console |-> NativeConsole,
   viewport |-> "initial"]

\* browsers.set(sessionId, { browser, page })
BrowsersSet(b, sessionId, k) == [b EXCEPT ![sessionId] = k]

\* createNewBrowserSession after browser.pages() fulfilled for connection k:
\* page = pages[0], browsers.set, page.on("console", ...).  With no default
\* page the entry is stored and page.on then raises a TypeError.
StorePair(k, hasPage) ==
  /\ browsers' = BrowsersSet(browsers, conns[k].sessionId, k)
  /\ conns' = [conns EXCEPT ![k] =
                 [@ EXCEPT !.page = IF hasPage THEN "page" ELSE "undefined",
                           !.registered = TRUE,
                           !.listener = hasPage]]

\* the default-session line applied to every name
ResolvesDefaultAlways(name) == TRUE

\* the default-session line applies to every name but the bulk one
ResolvesDefault(name) == name # "puppeteer_parallel_sessions"

\* ---------------------------------------------------------------- dispatch
Goto(r, label) == [r EXCEPT !.pc = label]

\* a member of defaultSession.page is used: a TypeError if page is undefined
OnPage(r, hasPage, label, caught, prefix) ==
  IF hasPage THEN Goto(r, label)
  ELSE IF caught
       THEN Return(r, Envelope(TRUE, prefix, TypeErrorMessage),
                   Failed("action", "page"))
       ELSE Return(r, Thrown(TypeErrorMessage), Failed("action", "page"))

\* the bulk call's success envelope: one entry per element of the array
\* Promise.all fulfilled with, in the order of args.sessions
ParallelResults(its) ==
  [kind |-> "envelope", isError |-> FALSE,
   text |-> << "Parallel sessions results", "" >>, image |-> "",
   results |-> [i \in 1..Len(its) |-> [id |-> its[i].id, out |-> its[i].out]]]

\* switch (name): the code of the case up to its first await, in frame r
Dispatch(r, hasPage) ==
  CASE r.name = "puppeteer_create_session" -> Goto(r, "create_session_connect")
    [] r.name = "puppeteer_navigate" ->
         OnPage(r, hasPage, "navigate_goto", FALSE, "")
    [] r.name = "puppeteer_screenshot" ->
         OnPage(r, hasPage, "screenshot_setViewport", FALSE, "")
    [] r.name = "puppeteer_click" ->
         OnPage(r, hasPage, "click_click", TRUE, "Failed to click")
    [] r.name = "puppeteer_fill" ->
         OnPage(r, hasPage, "fill_waitForSelector", TRUE, "Failed to fill")
    [] r.name = "puppeteer_evaluate" ->
         OnPage(r, hasPage, "evaluate", TRUE, "Script execution failed")
    [] r.name = "puppeteer_get_json" ->
         OnPage(r, hasPage, "evaluate", TRUE, "Failed to extract JSON")
    [] r.name = "puppeteer_get_content" ->
         OnPage(r, hasPage, "evaluate", TRUE, "Failed to extract content")
    [] r.name = "puppeteer_parallel_sessions" ->
         IF Len(r.args.sessions) = 0
         THEN Return(r, ParallelResults(<< >>), NoFailure)
         ELSE [r EXCEPT !.pc = "parallel_sessions_all",
                        !.items = [i \in 1..Len(r.args.sessions) |->
                                     NewItem(r.args.sessions[i])]]
    [] r.name = "notion_read_page" ->
         IF HasNotionPageId(r.args.pageUrl)
         THEN Goto(r, "notion_call")
         ELSE Return(r, Envelope(TRUE, "Failed to read page",
                                 "Could not extract page ID from Notion URL"),
                     Failed("action", "extractNotionPageId"))
    [] r.name \in NotionTools \ {"notion_read_page"} -> Goto(r, "notion_call")
    [] OTHER -> Return(r, Envelope(TRUE, "Unknown tool", r.name), NoFailure)

\* ------------------------------------------------------------ the workload
\* Identifiers and names are opaque Map keys to the code, so a run names them
\* in a fixed order: a new one is the first of the order not named so far.
FirstNew(order, known) ==
  LET new == { i \in 1..Len(order) : order[i] \notin known } IN
  IF new = {} THEN {} ELSE { order[CHOOSE i \in new : \A j \in new : i <= j] }

KnownSessions ==
  { conns[k].sessionId : k \in 1..Len(conns) }
  \cup ({ calls[d].args.sessionId : d \in Calls } \ {"undefined"})
  \cup UNION { { calls[d].items[i].id : i \in 1..Len(calls[d].items) } : d \in Calls }

KnownNames ==
  { screenshots[i][1] : i \in 1..Len(screenshots) }
  \cup { calls[d].args.name : d \in { e \in Calls : calls[e].name = "puppeteer_screenshot" } }

InOrder(q, order, known) ==
  \A i \in 1..Len(q) :
    LET seen == known \cup { q[j] : j \in 1..(i - 1) } IN
    q[i] \in seen \cup FirstNew(order, seen)

Canonical(name, a) ==
  CASE name = "puppeteer_parallel_sessions" ->
         InOrder((IF a.sessionId = "undefined" THEN << >> ELSE << a.sessionId >>)
                   \o a.sessions,
                 SessionOrder, KnownSessions)
    [] name = "puppeteer_screenshot" ->
         /\ InOrder(<< a.sessionId >>, SessionOrder, KnownSessions)
         /\ a.name \in PlainNames => InOrder(<< a.name >>, NameOrder, KnownNames)
    [] OTHER -> InOrder(<< a.sessionId >>, SessionOrder, KnownSessions)

\* A bulk call of more than MaxShared pairs runs with no other call in flight.
\* A run issues more than MaxMixed calls only as a series of screenshot calls
\* that each stored an artifact.
Wide(r) == Len(r.args.sessions) > MaxShared

MayOverlap(c, a) ==
  \A d \in Calls \ {c} :
    InFlight(calls[d]) => ~Wide(calls[d]) /\ Len(a.sessions) <= MaxShared

\* -------------------------------------------------------------------- Init
Init ==
  /\ browsers = [s \in Keys |-> 0]
  /\ consoleLogs = << >>
  /\ screenshots = << >>
  /\ conns = << >>
  /\ notifications = << >>
  /\ calls = [c \in Calls |-> Idle]
  /\ listing = << >>
  /\ reading = NoReading
  /\ undelivered = {}
  /\ captures = << >>
  /\ raised = << >>

\* ---------------------------------------------------------- handleToolCall
\* A tool call arrives: handleToolCall runs up to its first await.
Arrive(c, names, shots, sizes) ==
  /\ calls[c].pc = "idle"
  /\ IF c = 1 THEN TRUE ELSE calls[c - 1].pc # "idle"
  /\ c > MaxMixed => Len(captures) = c - 1
  /\ \E name \in names : \E a \in ArgsFor(name, shots, sizes) :
       LET hit == browsers[a.sessionId]
           r == [Idle EXCEPT !.name = name, !.args = a, !.fresh = (hit = 0),
                   !.solo = \A e \in Calls \ {c} : ~InFlight(calls[e])]
           start == IF ResolvesDefault(name)
                    THEN IF hit # 0
                         THEN Dispatch([r EXCEPT !.defaultSession = hit],
                                       conns[hit].page = "page")
                         ELSE Suspend(r, "resolve_connect")
                    ELSE Dispatch(r, FALSE)
       IN
       /\ Canonical(name, a)
       /\ MayOverlap(c, a)
       /\ c > MaxMixed => name = "puppeteer_screenshot"
       /\ calls' = [d \in Calls |->
                      IF d = c THEN start
                      ELSE IF Finished(calls[d]) THEN Forgotten
                      ELSE [calls[d] EXCEPT !.solo = FALSE]]
  /\ Sent
  /\ UNCHANGED << registry, catalog >>

HandleToolCall(c) == Arrive(c, ToolNames, PlainNames, DefaultSizes)

\* the default-session line: puppeteer.connect settles
ResolveConnect(c) ==
  /\ calls[c].pc = "resolve_connect"
  /\ \/ /\ Len(conns) < MaxConns
        /\ conns' = Append(conns, NewConnection(calls[c].args.sessionId, "resolve"))
        /\ Update(c, [calls[c] EXCEPT !.pc = "resolve_pages",
                                      !.creating = Len(conns) + 1,
                                      !.opened = @ \cup {Len(conns) + 1}])
     \/ /\ Update(c, Return(calls[c], Thrown("connect"), Failed("resolve", "connect")))
        /\ UNCHANGED conns
  /\ Sent
  /\ UNCHANGED << browsers, catalog >>

\* the default-session line: browser.pages() settles
ResolvePages(c) ==
  /\ calls[c].pc = "resolve_pages"
  /\ \/ /\ StorePair(calls[c].creating, TRUE)
        /\ Update(c, Dispatch([calls[c] EXCEPT !.defaultSession = calls[c].creating,
                                               !.creating = 0],
                              TRUE))
     \/ /\ StorePair(calls[c].creating, FALSE)
        /\ Update(c, Return(calls[c], Thrown(TypeErrorMessage),
                            Failed("resolve", "page.on")))
     \/ /\ Update(c, Return(calls[c], Thrown("pages"), Failed("resolve", "pages")))
        /\ UNCHANGED registry
  /\ Sent
  /\ UNCHANGED catalog

\* ------------------------------------------------ case puppeteer_create_session
\* createNewBrowserSession(args.sessionId) inside try/catch: connect settles
CreateSessionConnect(c) ==
  /\ calls[c].pc = "create_session_connect"
  /\ \/ /\ Len(conns) < MaxConns
        /\ conns' = Append(conns, NewConnection(calls[c].args.sessionId, "explicit"))
        /\ Update(c, [calls[c] EXCEPT !.pc = "create_session_pages",
                                      !.creating = Len(conns) + 1,
                                      !.opened = @ \cup {Len(conns) + 1}])
     \/ /\ Update(c, Return(calls[c],
                            Envelope(TRUE, "Failed to create browser session",
                                     "connect"),
                            Failed("create", "connect")))
        /\ UNCHANGED conns
  /\ Sent
  /\ UNCHANGED << browsers, catalog >>

\* browser.pages() settles
CreateSessionPages(c) ==
  /\ calls[c].pc = "create_session_pages"
  /\ \/ /\ StorePair(calls[c].creating, TRUE)
        /\ Update(c, Return(calls[c],
                            Envelope(FALSE, "Created new browser session", ""),
                            NoFailure))
     \/ /\ StorePair(calls[c].creating, FALSE)
        /\ Update(c, Return(calls[c],
                            Envelope(TRUE, "Failed to create browser session",
                                     TypeErrorMessage),
                            Failed("create", "page.on")))
     \/ /\ Update(c, Return(calls[c],
                            Envelope(TRUE, "Failed to create browser session",
                                     "pages"),
                            Failed("create", "pages")))
        /\ UNCHANGED registry
  /\ Sent
  /\ UNCHANGED catalog

\* ------------------------------------------------------ case puppeteer_navigate
\* page.goto settles; the case has no try/catch
Navigate(c) ==
  /\ calls[c].pc = "navigate_goto"
  /\ \/ Update(c, Return(calls[c], Envelope(FALSE, "Navigated to", "url"), NoFailure))
     \/ Update(c, Return(calls[c], Thrown("goto"), Failed("action", "goto")))
  /\ Sent
  /\ UNCHANGED << registry, catalog >>

\* ---------------------------------------------------- case puppeteer_screenshot
\* a map that keeps the first value stored under a key
ScreenshotsSetFirstWins(m, name, data) ==
  IF \E i \in 1..Len(m) : m[i][1] = name THEN m ELSE Append(m, << name, data >>)

\* a map that moves a key it stores again to the end
ScreenshotsSetMovesToEnd(m, name, data) ==
  Append(SelectSeq(m, LAMBDA e : e[1] # name), << name, data >>)

\* screenshots.set(name, data): a Map keeps a key's first position
ScreenshotsSet(m, name, data) ==
  IF \E i \in 1..Len(m) : m[i][1] = name
  THEN [i \in 1..Len(m) |-> IF m[i][1] = name THEN << name, data >> ELSE m[i]]
  ELSE Append(m, << name, data >>)

ScreenshotsHas(m, name) == \E i \in 1..Len(m) : m[i][1] = name

\* screenshots.get(name); undefined is modelled by "undefined"
ScreenshotsGet(m, name) ==
  IF ScreenshotsHas(m, name)
  THEN m[CHOOSE i \in 1..Len(m) : m[i][1] = name][2]
  ELSE "undefined"

\* Array.from(screenshots.keys())
ScreenshotsKeys(m) == [i \in 1..Len(m) |-> m[i][1]]

ListChanged ==
  [method |-> "notifications/resources/list_changed", message |-> << >>]

\* const width = args.width ?? 800; const height = args.height ?? 600
Requested(a) == IF a.size = "undefined" THEN "800x600" ELSE a.size

\* page.setViewport({ width, height }) settles: the page of the call's
\* session has taken the dimensions, or the call rejected
ScreenshotSetViewport(c) ==
  /\ calls[c].pc = "screenshot_setViewport"
  /\ \/ /\ Update(c, Suspend(calls[c], IF calls[c].args.selector
                                       THEN "screenshot_query"
                                       ELSE "screenshot_capture"))
        /\ conns' = [conns EXCEPT ![calls[c].defaultSession].viewport =
                                     Requested(calls[c].args)]
     \/ /\ Update(c, Return(calls[c], Thrown("setViewport"),
                            Failed("action", "setViewport")))
        /\ UNCHANGED conns
  /\ Sent
  /\ UNCHANGED << browsers, catalog >>

\* a test that takes every awaited value for a screenshot
AlwaysTruthy(screenshot) == TRUE

\* !screenshot is false: undefined and the empty string are falsy
Truthy(screenshot) == screenshot \notin {"", "undefined"}

\* a notification that is never handed to the transport
ServerNotificationDropped(sent, notification) == sent

\* server.notification(...): handed to the transport once; the promise it
\* returns is not awaited
ServerNotification(sent, notification) == Append(sent, notification)

\* a text that reports the dimensions the page held
TakenAtViewport(requested, viewport) == viewport

\* `... taken at ${width}x${height}`: the locals of the call
TakenAt(requested, viewport) == requested

\* the code after the awaited screenshot value: the falsy test, the store,
\* the notification and the envelope
ScreenshotStore(c, screenshot) ==
  IF ~Truthy(screenshot)
  THEN /\ Update(c, Return(calls[c],
                           IF calls[c].args.selector
                           THEN Envelope(TRUE, "Element not found", "selector")
                           ELSE Envelope(TRUE, "Screenshot failed", ""),
                           Failed("action", IF screenshot = "undefined"
                                            THEN "$" ELSE "screenshot")))
       /\ UNCHANGED catalog
  ELSE /\ screenshots' = ScreenshotsSet(screenshots, calls[c].args.name, screenshot)
       /\ captures' = Append(captures, << calls[c].args.name, screenshot >>)
       /\ notifications' = ServerNotification(notifications, ListChanged)
       /\ Update(c, [Return(calls[c],
                             [Envelope(FALSE, "Screenshot taken",
                                       TakenAt(Requested(calls[c].args),
                                               conns[calls[c].defaultSession].viewport))
                                EXCEPT !.image = screenshot],
                             NoFailure)
                        EXCEPT !.shotAt = conns[calls[c].defaultSession].viewport])
       /\ UNCHANGED << consoleLogs, undelivered, raised >>

\* page.$(selector) settles: an element, null (the optional call then yields
\* undefined), or a rejection
ScreenshotQuery(c) ==
  /\ calls[c].pc = "screenshot_query"
  /\ \/ /\ Update(c, Suspend(calls[c], "screenshot_capture"))
        /\ UNCHANGED catalog
     \/ ScreenshotStore(c, "undefined")
     \/ /\ Update(c, Return(calls[c], Thrown("$"), Failed("action", "$")))
        /\ UNCHANGED catalog
  /\ Sent
  /\ UNCHANGED registry

\* the capture settles with a base64 string, or rejects
ScreenshotCapture(c) ==
  /\ calls[c].pc = "screenshot_capture"
  /\ \/ \E data \in Payloads : ScreenshotStore(c, data)
     \/ /\ Update(c, Return(calls[c], Thrown("screenshot"),
                            Failed("action", "screenshot")))
        /\ UNCHANGED catalog
  /\ Sent
  /\ UNCHANGED registry

\* --------------------------------------------------------- case puppeteer_click
Click(c) ==
  /\ calls[c].pc = "click_click"
  /\ \/ Update(c, Return(calls[c], Envelope(FALSE, "Clicked", "selector"), NoFailure))
     \/ Update(c, Return(calls[c], Envelope(TRUE, "Failed to click", "click"),
                         Failed("action", "click")))
  /\ Sent
  /\ UNCHANGED << registry, catalog >>

\* ---------------------------------------------------------- case puppeteer_fill
FillWaitForSelector(c) ==
  /\ calls[c].pc = "fill_waitForSelector"
  /\ \/ Update(c, Suspend(calls[c], "fill_type"))
     \/ Update(c, Return(calls[c], Envelope(TRUE, "Failed to fill", "waitForSelector"),
                         Failed("action", "waitForSelector")))
  /\ Sent
  /\ UNCHANGED << registry, catalog >>

FillType(c) ==
  /\ calls[c].pc = "fill_type"
  /\ \/ Update(c, Return(calls[c], Envelope(FALSE, "Filled", "selector"), NoFailure))
     \/ Update(c, Return(calls[c], Envelope(TRUE, "Failed to fill", "type"),
                         Failed("action", "type")))
  /\ Sent
  /\ UNCHANGED << registry, catalog >>

\* ---------- cases puppeteer_evaluate, puppeteer_get_json, puppeteer_get_content
EvaluateSuccess(name) ==
  CASE name = "puppeteer_evaluate" -> "Execution result"
    [] name = "puppeteer_get_json" -> "Found JSON content"
    [] OTHER -> "Extracted content"

EvaluateFailure(name) ==
  CASE name = "puppeteer_evaluate" -> "Script execution failed"
    [] name = "puppeteer_get_json" -> "Failed to extract JSON"
    [] OTHER -> "Failed to extract content"

\* an assignment that copies nothing
ObjectAssignNothing(target, source) == target

\* Object.assign(target, source): every property of source is set on target
ObjectAssign(target, source) ==
  [method \in DOMAIN target |->
     IF method \in DOMAIN source THEN source[method] ELSE target[method]]

\* The function puppeteer_evaluate runs in the page, on the page's console:
\* originalConsole = { ...console }, the four methods replaced by wrappers,
\* eval(script), in which the script may replace the methods in replaced, and
\* Object.assign(console, originalConsole) on both ways out.
InPage(console, replaced) ==
  LET originalConsole == console
      wrapped == [method \in ConsoleMethods |->
                    IF method \in Intercepted THEN "wrapper" ELSE console[method]]
      evaluated == [method \in ConsoleMethods |->
                      IF method \in replaced THEN "script" ELSE wrapped[method]]
  IN ObjectAssign(evaluated, originalConsole)

\* what a script may do to the console object while it runs
Replaced == { {}, {"log"}, {"debug"} }

\* the page after its function ran for call c
Evaluated(c, replaced) ==
  IF calls[c].name = "puppeteer_evaluate"
  THEN [conns EXCEPT ![calls[c].defaultSession] =
          [@ EXCEPT !.console = InPage(@, replaced)]]
  ELSE conns

\* the characters of a text the scanner tells apart: the two braces, a key
\* with its colon, and any other character
Chars == { "{", "}", "k:", "x" }

\* JSON.parse(jsonStr) for a slice that starts and ends with a brace: the
\* nesting depth of the object parsed, or -1 where JSON.parse throws
RECURSIVE JSONParse(_)
JSONParse(jsonStr) ==
  IF jsonStr = << "{", "}" >> THEN 0
  ELSE IF /\ Len(jsonStr) >= 4
          /\ jsonStr[1] = "{"
          /\ jsonStr[2] = "k:"
          /\ jsonStr[Len(jsonStr)] = "}"
       THEN LET inner == JSONParse(SubSeq(jsonStr, 3, Len(jsonStr) - 1)) IN
            IF inner = -1 THEN -1 ELSE inner + 1
       ELSE -1

\* the loop of extractJSON from index i on (indexes from 1, start = -1 when
\* no opening brace is remembered)
RECURSIVE ExtractJSONFrom(_, _, _, _, _)
ExtractJSONFrom(text, i, braceCount, start, jsonObjects) ==
  IF i > Len(text) THEN jsonObjects
  ELSE IF text[i] = "{"
       THEN ExtractJSONFrom(text, i + 1, braceCount + 1,
                            IF braceCount = 0 THEN i ELSE start, jsonObjects)
       ELSE IF text[i] = "}"
            THEN IF braceCount - 1 = 0 /\ start # -1
                 THEN LET parsed == JSONParse(SubSeq(text, start, i)) IN
                      ExtractJSONFrom(text, i + 1, braceCount - 1, start,
                                      IF parsed = -1 THEN jsonObjects
                                      ELSE Append(jsonObjects, parsed))
                 ELSE ExtractJSONFrom(text, i + 1, braceCount - 1, start,
                                      jsonObjects)
            ELSE ExtractJSONFrom(text, i + 1, braceCount, start, jsonObjects)

\* extractJSON(text)
ExtractJSON(text) == ExtractJSONFrom(text, 1, 0, -1, << >>)

\* the text content of the page a run does not look into
DefaultTexts == { << >> }

\* the text content a page may hold
Texts == SeqsUpTo(Chars, MaxText)

\* what the page function of the case returned, for text content text
EvaluateValue(name, text) ==
  IF name = "puppeteer_get_json" THEN ExtractJSON(text) ELSE ""

\* page.evaluate settles, inside the case's try/catch: the function returned
\* a value, or the function threw
EvaluateOn(c, texts) ==
  /\ calls[c].pc = "evaluate"
  /\ calls[c].name \in EvaluateTools
  /\ \/ /\ \E text \in texts :
             Update(c, [Return(calls[c],
                               Envelope(FALSE, EvaluateSuccess(calls[c].name),
                                        EvaluateValue(calls[c].name, text)),
                               NoFailure)
                          EXCEPT !.scanned = text])
        /\ \E replaced \in Replaced : conns' = Evaluated(c, replaced)
     \/ /\ Update(c, Return(calls[c],
                            Envelope(TRUE, EvaluateFailure(calls[c].name), "evaluate"),
                            Failed("action", "evaluate")))
        /\ \E replaced \in Replaced : conns' = Evaluated(c, replaced)
  /\ Sent
  /\ UNCHANGED << browsers, catalog >>

Evaluate(c) == EvaluateOn(c, DefaultTexts)

\* ------------------------------------------------------------- cases notion_*
NotionSuccess(name) ==
  CASE name = "notion_read_page" -> "blocks"
    [] name = "notion_update_page" -> "Page updated successfully"
    [] name = "notion_append_content" -> "Content appended successfully"
    [] name = "notion_read_comments" -> "comments"
    [] name = "notion_add_comment" -> "Comment added successfully"
    [] OTHER -> "Created database entry"

NotionFailure(name) ==
  CASE name = "notion_read_page" -> "Failed to read page"
    [] name = "notion_update_page" -> "Failed to update page"
    [] name = "notion_append_content" -> "Failed to append content"
    [] name = "notion_read_comments" -> "Failed to read comments"
    [] name = "notion_add_comment" -> "Failed to add comment"
    [] OTHER -> "Failed to create database entry"

\* the collaboration provider's call settles, inside the case's try/catch
NotionCall(c) ==
  /\ calls[c].pc = "notion_call"
  /\ \/ Update(c, Return(calls[c], Envelope(FALSE, NotionSuccess(calls[c].name), ""),
                         NoFailure))
     \/ Update(c, Return(calls[c],
                         Envelope(TRUE, NotionFailure(calls[c].name), "notion"),
                         Failed("action", "notion")))
  /\ Sent
  /\ UNCHANGED << registry, catalog >>

\* ------------------------------------------- case puppeteer_parallel_sessions
SetItem(r, i, it) == [r EXCEPT !.items = [@ EXCEPT ![i] = it]]

\* await Promise.all(...) in frame r, whose coroutines have just moved: it
\* rejects with the first rejection (the catch returns the failure envelope)
\* and fulfils once every element has fulfilled
PromiseAll(r, message) ==
  IF r.pc # "parallel_sessions_all"
  THEN r
  ELSE IF \E i \in 1..Len(r.items) : r.items[i].pc = "rejected"
       THEN Return(r, Envelope(TRUE, "Failed to execute parallel sessions", message),
                   Failed("item", message))
       ELSE IF \A i \in 1..Len(r.items) : r.items[i].pc = "fulfilled"
            THEN Return(r, ParallelResults(r.items), NoFailure)
            ELSE r

\* createNewBrowserSession(session.id): puppeteer.connect settles
ItemConnect(c, i) ==
  /\ i \in 1..Len(calls[c].items)
  /\ calls[c].items[i].pc = "connect"
  /\ \/ /\ Len(conns) < MaxConns
        /\ conns' = Append(conns, NewConnection(calls[c].items[i].id, "item"))
        /\ Update(c, [SetItem(calls[c], i,
                              [calls[c].items[i] EXCEPT !.pc = "pages",
                                                        !.conn = Len(conns) + 1])
                        EXCEPT !.opened = @ \cup {Len(conns) + 1}])
     \/ /\ Update(c, PromiseAll(SetItem(calls[c], i,
                                        [calls[c].items[i] EXCEPT !.pc = "rejected"]),
                                "connect"))
        /\ UNCHANGED conns
  /\ Sent
  /\ UNCHANGED << browsers, catalog >>

\* createNewBrowserSession(session.id): browser.pages() settles
ItemPages(c, i) ==
  /\ i \in 1..Len(calls[c].items)
  /\ calls[c].items[i].pc = "pages"
  /\ \/ /\ StorePair(calls[c].items[i].conn, TRUE)
        /\ Update(c, SetItem(calls[c], i, [calls[c].items[i] EXCEPT !.pc = "goto"]))
     \/ /\ StorePair(calls[c].items[i].conn, FALSE)
        /\ Update(c, PromiseAll(SetItem(calls[c], i,
                                        [calls[c].items[i] EXCEPT !.pc = "rejected"]),
                                TypeErrorMessage))
     \/ /\ Update(c, PromiseAll(SetItem(calls[c], i,
                                        [calls[c].items[i] EXCEPT !.pc = "rejected"]),
                                "pages"))
        /\ UNCHANGED registry
  /\ Sent
  /\ UNCHANGED catalog

\* page.goto(session.url) settles, inside the item's try/catch
ItemGoto(c, i) ==
  /\ i \in 1..Len(calls[c].items)
  /\ calls[c].items[i].pc = "goto"
  /\ \/ Update(c, SetItem(calls[c], i, [calls[c].items[i] EXCEPT !.pc = "evaluate"]))
     \/ Update(c, PromiseAll(SetItem(calls[c], i,
                                     [calls[c].items[i] EXCEPT !.pc = "fulfilled",
                                                               !.out = "error"]),
                             ""))
  /\ Sent
  /\ UNCHANGED << registry, catalog >>

\* page.evaluate(() => document.body.innerText) settles, inside the try/catch
ItemEvaluate(c, i) ==
  /\ i \in 1..Len(calls[c].items)
  /\ calls[c].items[i].pc = "evaluate"
  /\ \E out \in {"content", "error"} :
       Update(c, PromiseAll(SetItem(calls[c], i,
                                    [calls[c].items[i] EXCEPT !.pc = "fulfilled",
                                                              !.out = out]),
                            ""))
  /\ Sent
  /\ UNCHANGED << registry, catalog >>

\* ------------------------------------------------------------ console events
\* `[Session ${sessionId}][${msg.type()}] ${msg.text()}`
LogEntry(sessionId, type, text) ==
  << "[Session ", sessionId, "][", type, "] " >> \o text

\* a push at the front of the log
ConsoleLogsUnshift(log, logEntry) == << logEntry >> \o log

\* consoleLogs.push(logEntry)
ConsoleLogsPush(log, logEntry) == Append(log, logEntry)

\* the listener createNewBrowserSession installed on connection k's page runs
CloudMessage(logEntry) ==
  [method |-> "notifications/cloud/message", message |-> logEntry]

\* at most max events, each a pair of msg.type() and msg.text() in messages
ConsoleListener(k, max, messages) ==
  /\ k \in 1..Len(conns)
  /\ conns[k].listener
  /\ Len(consoleLogs) < max
  /\ \E msg \in messages :
       LET logEntry == LogEntry(conns[k].sessionId, msg[1], msg[2]) IN
       /\ consoleLogs' = ConsoleLogsPush(consoleLogs, logEntry)
       /\ notifications' = ServerNotification(notifications, CloudMessage(logEntry))
       /\ raised' = Append(raised, << conns[k].sessionId, msg[1], msg[2] >>)
  /\ Other
  /\ Sent
  /\ UNCHANGED << registry, screenshots, captures, undelivered >>

ConsoleEvent(k) == ConsoleListener(k, MaxLogs, MsgTypes \X { << "text" >> })

\* ---------------------------------------------------------- request handlers
ConsoleDescriptor ==
  [uri |-> << "console", "://", "logs" >>, mimeType |-> "text/plain",
   name |-> << "Browser console logs" >>]

ScreenshotDescriptor(name) ==
  [uri |-> << "screenshot", "://" >> \o name, mimeType |-> "image/png",
   name |-> << "Screenshot: " >> \o name]

\* a listing that leaves the fixed descriptor out
ListResourcesWithoutConsole(m) ==
  [i \in 1..Len(m) |-> ScreenshotDescriptor(ScreenshotsKeys(m)[i])]

\* the resources array of the ListResourcesRequestSchema handler
ListResources(m) ==
  << ConsoleDescriptor >> \o
  [i \in 1..Len(m) |-> ScreenshotDescriptor(ScreenshotsKeys(m)[i])]

\* uri.split("://"): the pieces between the separators
RECURSIVE Split(_)
Split(uri) ==
  IF \A i \in 1..Len(uri) : uri[i] # "://"
  THEN << uri >>
  ELSE LET at == CHOOSE i \in 1..Len(uri) :
                   uri[i] = "://" /\ \A j \in 1..(i - 1) : uri[j] # "://"
       IN << SubSeq(uri, 1, at - 1) >> \o Split(SubSeq(uri, at + 1, Len(uri)))

\* uri.startsWith("screenshot://")
StartsWithScreenshot(uri) ==
  Len(uri) >= 2 /\ uri[1] = "screenshot" /\ uri[2] = "://"

\* consoleLogs.join("\n")
RECURSIVE Join(_)
Join(log) ==
  IF Len(log) = 0 THEN << >>
  ELSE IF Len(log) = 1 THEN log[1]
  ELSE log[1] \o << "\n" >> \o Join(Tail(log))

ResourceNotFound(uri) ==
  [kind |-> "error", uri |-> uri, mimeType |-> "",
   body |-> << "Resource not found: " >> \o uri]

\* the ReadResourceRequestSchema handler
ReadResource(uri, log, m) ==
  IF uri = << "console", "://", "logs" >>
  THEN [kind |-> "contents", uri |-> uri, mimeType |-> "text/plain",
        body |-> Join(log)]
  ELSE IF StartsWithScreenshot(uri)
       THEN LET name == Split(uri)[2]
                screenshot == ScreenshotsGet(m, name)
            IN IF Truthy(screenshot)
               THEN [kind |-> "contents", uri |-> uri, mimeType |-> "image/png",
                     body |-> << screenshot >>]
               ELSE ResourceNotFound(uri)
       ELSE ResourceNotFound(uri)

\* the URIs a client asks for
ReadUris ==
  { << "console", "://", "logs" >>, << "console", "://", "other" >>,
    << "screenshot", "://", "home" >>, << "screenshot", "://", "home", "://", "x" >> }

\* a read-resource request is answered
ReadResourceRequest ==
  /\ \E uri \in ReadUris : reading' = ReadResource(uri, consoleLogs, screenshots)
  /\ listing' = << >>
  /\ Other
  /\ UNCHANGED << registry, catalog >>

\* a list-resources request is answered
ListResourcesRequest ==
  /\ listing' = ListResources(screenshots)
  /\ reading' = NoReading
  /\ Other
  /\ UNCHANGED << registry, catalog >>

\* -------------------------------------------------------------------- Next
Next ==
  \/ \E c \in Calls : HandleToolCall(c)
  \/ \E c \in Calls : ResolveConnect(c)
  \/ \E c \in Calls : ResolvePages(c)
  \/ \E c \in Calls : CreateSessionConnect(c)
  \/ \E c \in Calls : CreateSessionPages(c)
  \/ \E c \in Calls : Navigate(c)
  \/ \E c \in Calls : ScreenshotSetViewport(c)
  \/ \E c \in Calls : ScreenshotQuery(c)
  \/ \E c \in Calls : ScreenshotCapture(c)
  \/ \E c \in Calls : Click(c)
  \/ \E c \in Calls : FillWaitForSelector(c)
  \/ \E c \in Calls : FillType(c)
  \/ \E c \in Calls : Evaluate(c)
  \/ \E c \in Calls : NotionCall(c)
  \/ \E c \in Calls : \E i \in 1..MaxItems : ItemConnect(c, i)
  \/ \E c \in Calls : \E i \in 1..MaxItems : ItemPages(c, i)
  \/ \E c \in Calls : \E i \in 1..MaxItems : ItemGoto(c, i)
  \/ \E c \in Calls : \E i \in 1..MaxItems : ItemEvaluate(c, i)
  \/ \E k \in 1..MaxConns : ConsoleEvent(k)
  \/ ListResourcesRequest

Spec == Init /\ [][Next]_vars

\* ------------------------------------------------------ the catalog workload
\* Runs that write and read the Resource Catalog: screenshot calls only, one
\* at a time, console events with a one-line and a two-line text, and
\* listings and reads of resources.
CatalogTools == { "puppeteer_screenshot" }

CatalogMessages ==
  { << "log", << "hello" >> >>, << "error", << "a", "\n", "b" >> >> }

HandleCatalogCall(c) ==
  /\ \A d \in Calls \ {c} : ~InFlight(calls[d])
  /\ Arrive(c, CatalogTools, ScreenshotNames, DefaultSizes)

CatalogConsoleEvent(k) == ConsoleListener(k, MaxCatalogLogs, CatalogMessages)

\* a rejection handler that hands the notification to the transport again
RejectionResent(sent, i) == Append(sent, sent[i])

\* the promise server.notification returned has no rejection handler
RejectionUnhandled(sent, i) == sent

\* the promise server.notification returned for notification i rejects
DeliveryFails(i) ==
  /\ i \in 1..Len(notifications)
  /\ i \notin undelivered
  /\ Cardinality(undelivered) < MaxUndelivered
  /\ undelivered' = undelivered \cup {i}
  /\ notifications' = RejectionUnhandled(notifications, i)
  /\ Other
  /\ Sent
  /\ UNCHANGED << registry, consoleLogs, screenshots, captures, raised >>

NextCatalog ==
  \/ \E c \in Calls : HandleCatalogCall(c)
  \/ \E c \in Calls : ResolveConnect(c)
  \/ \E c \in Calls : ResolvePages(c)
  \/ \E c \in Calls : ScreenshotSetViewport(c)
  \/ \E c \in Calls : ScreenshotQuery(c)
  \/ \E c \in Calls : ScreenshotCapture(c)
  \/ \E k \in 1..MaxConns : CatalogConsoleEvent(k)
  \/ ListResourcesRequest
  \/ ReadResourceRequest

SpecCatalog == Init /\ [][NextCatalog]_vars

\* ----------------------------------------------------- the delivery workload
\* Runs in which the transport fails to deliver a notification: screenshot
\* calls, one at a time, and console events.
NextDelivery ==
  \/ \E c \in Calls : HandleCatalogCall(c)
  \/ \E c \in Calls : ResolveConnect(c)
  \/ \E c \in Calls : ResolvePages(c)
  \/ \E c \in Calls : ScreenshotSetViewport(c)
  \/ \E c \in Calls : ScreenshotQuery(c)
  \/ \E c \in Calls : ScreenshotCapture(c)
  \/ \E k \in 1..MaxConns : ConsoleEvent(k)
  \/ \E i \in 1..(MaxCalls + MaxLogs) : DeliveryFails(i)

SpecDelivery == Init /\ [][NextDelivery]_vars

\* ----------------------------------------------------- the viewport workload
\* Runs of screenshot calls that may overlap and that ask for the default
\* dimensions or for their own.
HandleViewportCall(c) == Arrive(c, CatalogTools, PlainNames, Sizes)

NextViewport ==
  \/ \E c \in Calls : HandleViewportCall(c)
  \/ \E c \in Calls : ResolveConnect(c)
  \/ \E c \in Calls : ResolvePages(c)
  \/ \E c \in Calls : ScreenshotSetViewport(c)
  \/ \E c \in Calls : ScreenshotQuery(c)
  \/ \E c \in Calls : ScreenshotCapture(c)

SpecViewport == Init /\ [][NextViewport]_vars

\* --------------------------------------------------- the extraction workload
\* Runs of structured-data extraction calls on pages of any text content.
ExtractionTools == { "puppeteer_get_json" }

HandleExtractionCall(c) == Arrive(c, ExtractionTools, PlainNames, DefaultSizes)

NextExtraction ==
  \/ \E c \in Calls : HandleExtractionCall(c)
  \/ \E c \in Calls : ResolveConnect(c)
  \/ \E c \in Calls : ResolvePages(c)
  \/ \E c \in Calls : EvaluateOn(c, Texts)

SpecExtraction == Init /\ [][NextExtraction]_vars

\* ----------------------------------------------------- the blocking workload
\* Runs in which a remote call may never settle.  There is no timeout and no
\* cancellation: the coroutine that awaits it stays suspended.
LiveTools ==
  { "puppeteer_create_session", "puppeteer_navigate", "puppeteer_screenshot",
    "puppeteer_click", "puppeteer_fill", "puppeteer_get_content",
    "notion_read_page", "puppeteer_close" }

Hung == { d \in Calls : calls[d].pc = "hung" }

\* the remote call that call c awaits never settles
Hang(c) ==
  /\ calls[c].pc \notin {"idle", "returned", "forgotten", "hung",
                         "parallel_sessions_all"}
  /\ Cardinality(Hung) < MaxHung
  /\ Update(c, [calls[c] EXCEPT !.pc = "hung"])
  /\ Sent
  /\ UNCHANGED << registry, catalog >>

HandleLiveCall(c) == Arrive(c, LiveTools, PlainNames, DefaultSizes)

\* a server that answers its requests one after the other
OneAtATime(c) == \A d \in Calls \ {c} : calls[d].pc # "hung"

\* the request handler is async: an await suspends the coroutine of its own
\* request only, and a settled call's continuation runs whatever the other
\* requests are waiting for
OwnCoroutine(c) == TRUE

\* the awaited remote call of call c settles and its coroutine runs on
Settle(c) ==
  /\ OwnCoroutine(c)
  /\ \/ ResolveConnect(c)
     \/ ResolvePages(c)
     \/ CreateSessionConnect(c)
     \/ CreateSessionPages(c)
     \/ Navigate(c)
     \/ ScreenshotSetViewport(c)
     \/ ScreenshotQuery(c)
     \/ ScreenshotCapture(c)
     \/ Click(c)
     \/ FillWaitForSelector(c)
     \/ FillType(c)
     \/ Evaluate(c)
     \/ NotionCall(c)

NextLive ==
  \/ \E c \in Calls : HandleLiveCall(c)
  \/ \E c \in Calls : Settle(c)
  \/ \E c \in Calls : Hang(c)

\* the event loop runs the continuation of every settled call
SpecLive ==
  /\ Init
  /\ [][NextLive]_vars
  /\ \A c \in Calls : WF_vars(Settle(c))

\* ================================================================== claims
Returned(c) == calls[c].pc = "returned"

\* the connections stored in the registry under sessionId at some time
PairsFor(sessionId) ==
  { k \in 1..Len(conns) : conns[k].sessionId = sessionId /\ conns[k].registered }

\* C1: a non-bulk tool call that names a session identifier with no registry
\* entry and runs with no other call in flight opens at most one connection;
\* unless the resolution itself failed it opens exactly one, and that
\* connection is the one pair the registry holds for the identifier.
C1_SoloCallOpensOneConnection ==
  \A c \in Calls :
    LET r == calls[c] IN
    (/\ Returned(c)
     /\ r.name \in ToolNames \ {"puppeteer_parallel_sessions"}
     /\ r.solo
     /\ r.fresh)
    => /\ Cardinality(r.opened) <= 1
       /\ r.failure.phase # "resolve"
          => /\ Cardinality(r.opened) = 1
             /\ browsers[r.args.sessionId] \in r.opened

\* C2: two calls that both miss the registry lookup for one identifier do not
\* both create a pair for it: per identifier, at most one pair made by the
\* default-session line is ever stored.
C2_NoTwoSessionsForOneIdentifier ==
  \A s \in Keys :
    Cardinality({ k \in PairsFor(s) : conns[k].via = "resolve" }) <= 1

\* the awaited remote calls of the tool-specific actions
RemoteSteps ==
  { "goto", "setViewport", "$", "screenshot", "click", "waitForSelector",
    "type", "evaluate", "notion" }

\* C3: a call on an already-registered session whose tool-specific action
\* fails returns an envelope with isError true; the failure never leaves
\* handleToolCall as a rejection.
C3_ActionFailureIsAnErrorEnvelope ==
  \A c \in Calls :
    LET r == calls[c] IN
    (/\ Returned(c)
     /\ ~r.fresh
     /\ r.failure.phase = "action"
     /\ r.failure.step \in RemoteSteps)
    => r.result.kind = "envelope" /\ r.result.isError

\* C4: a call whose session resolution fails at the connect step returns an
\* envelope with isError true and a message; the connection failure is not
\* thrown past handleToolCall.
C4_ConnectFailureIsAnErrorEnvelope ==
  \A c \in Calls :
    LET r == calls[c] IN
    (Returned(c) /\ r.failure = Failed("resolve", "connect"))
    => /\ r.result.kind = "envelope"
       /\ r.result.isError
       /\ Len(r.result.text) = 2

\* C5: a call naming a tool outside the handled set returns the envelope with
\* isError true whose text holds the unknown name, whatever the Capability
\* Provider does; it does not throw.
C5_UnknownToolIsAnErrorEnvelope ==
  \A c \in Calls :
    LET r == calls[c] IN
    (Returned(c) /\ r.name \in UnknownTools)
    => r.result = Envelope(TRUE, "Unknown tool", r.name)

\* C6: a bulk call over k pairs returns k entries in input order, each the
\* item's text or the item's failure; a failure of one item at any step is
\* that item's entry and never a whole-call failure.
C6_BulkReturnsOneEntryPerItem ==
  \A c \in Calls :
    LET r == calls[c] IN
    (Returned(c) /\ r.name = "puppeteer_parallel_sessions")
    => /\ r.result.kind = "envelope"
       /\ ~r.result.isError
       /\ Len(r.result.results) = Len(r.args.sessions)
       /\ \A i \in 1..Len(r.args.sessions) :
            /\ r.result.results[i].id = r.args.sessions[i]
            /\ r.result.results[i].out \in {"content", "error"}

\* C7: the bulk call returns only after every item has settled: it is never
\* returned while an item's session creation, navigation or text extraction
\* is pending.
C7_BulkReturnsAfterEveryItemSettled ==
  \A c \in Calls :
    LET r == calls[c] IN
    (Returned(c) /\ r.name = "puppeteer_parallel_sessions")
    => \A i \in 1..Len(r.items) : ~ItemPending(r.items[i])

Distinct(q) == \A i, j \in 1..Len(q) : q[i] = q[j] => i = j

\* C8: a bulk call performs no single-session resolution (it never waits on
\* the default-session line, holds no default session and opens no connection
\* for args.sessionId); every connection it opens is opened by one item, for
\* that item's id, and no item opens two.  Once it has returned its results
\* over k pairs it has opened exactly k connections and stored each as a
\* pair; if the ids are distinct and no other call ran meanwhile, the
\* registry holds item i's connection under item i's id.
C8_BulkCreatesOneSessionPerItem ==
  \A c \in Calls :
    LET r == calls[c]
        k == Len(r.args.sessions)
    IN
    r.name = "puppeteer_parallel_sessions"
    => /\ r.pc \notin {"resolve_connect", "resolve_pages"}
       /\ r.defaultSession = 0
       /\ r.creating = 0
       /\ \A n \in r.opened : conns[n].via = "item"
       /\ r.opened = { r.items[i].conn : i \in 1..Len(r.items) } \ {0}
       /\ \A i \in 1..Len(r.items) :
            LET it == r.items[i] IN
            /\ it.id = r.args.sessions[i]
            /\ it.conn # 0 => conns[it.conn].sessionId = it.id
            /\ \A j \in 1..Len(r.items) :
                 (it.conn # 0 /\ r.items[j].conn = it.conn) => i = j
            /\ it.pc \in {"goto", "evaluate", "fulfilled"}
               => it.conn # 0 /\ conns[it.conn].registered
       /\ (Returned(c) /\ ~r.result.isError)
          => /\ Cardinality(r.opened) = k
             /\ \A n \in r.opened : conns[n].registered
             /\ (r.solo /\ Distinct(r.args.sessions))
                => \A i \in 1..k : browsers[r.args.sessions[i]] = r.items[i].conn

\* a bulk call over two distinct never-seen ids, with no args.sessionId, has
\* returned its results: two pairs are stored, none under the absent key
C8_Witness ==
  \E c \in Calls :
    LET r == calls[c] IN
    /\ r.name = "puppeteer_parallel_sessions"
    /\ Returned(c)
    /\ ~r.result.isError
    /\ r.fresh
    /\ r.args.sessionId = "undefined"
    /\ Len(r.args.sessions) = 2
    /\ Distinct(r.args.sessions)
    /\ Len(conns) = 2
    /\ r.opened = {1, 2}
    /\ browsers["undefined"] = 0
    /\ browsers[r.args.sessions[1]] # browsers[r.args.sessions[2]]

\* the positions of the stores under name in the history of screenshots.set
CapturesOf(name) == { i \in 1..Len(captures) : captures[i][1] = name }

LastOf(S) == CHOOSE i \in S : \A j \in S : j <= i

\* C9: the screenshot map holds exactly one artifact under every name a
\* capture has stored under, its payload is that of the capture that stored
\* last under that name, and it holds nothing under any other name; so a
\* capture changes no other name's artifact.
C9_LastCaptureWins ==
  \A name \in ScreenshotNames :
    IF CapturesOf(name) = {}
    THEN ~ScreenshotsHas(screenshots, name)
    ELSE /\ Cardinality({ i \in 1..Len(screenshots) : screenshots[i][1] = name }) = 1
         /\ ScreenshotsGet(screenshots, name) = captures[LastOf(CapturesOf(name))][2]

\* a second capture under a name has replaced a different payload while
\* another name holds the artifact a capture in between stored
C9_Witness ==
  /\ Len(captures) = 3
  /\ captures[1][1] = captures[3][1]
  /\ captures[1][2] # captures[3][2]
  /\ captures[2][1] # captures[1][1]
  /\ captures[2][2] # captures[3][2]
  /\ Len(screenshots) = 2
  /\ ScreenshotsGet(screenshots, captures[3][1]) = captures[3][2]
  /\ ScreenshotsGet(screenshots, captures[2][1]) = captures[2][2]

\* the names the screenshot map m holds
StoredNames(m) == { m[i][1] : i \in 1..Len(m) }

\* C10: a listing of the live state holds the fixed console descriptor and
\* then one descriptor per stored screenshot name, 1 + (number of distinct
\* names stored) in all; an answer the handler has just sent is that listing
\* of the screenshot map as it is at that instant.
C10_ListingCountsStoredScreenshots ==
  /\ Len(ListResources(screenshots)) = 1 + Cardinality(StoredNames(screenshots))
  /\ listing # << >>
     => /\ Len(listing) = 1 + Cardinality(StoredNames(screenshots))
        /\ listing[1] = ConsoleDescriptor
        /\ { listing[i].uri : i \in 2..Len(listing) }
             = { << "screenshot", "://" >> \o name : name \in StoredNames(screenshots) }

\* a listing sent after three captures under two names: three descriptors
C10_Witness ==
  /\ Len(captures) = 3
  /\ Cardinality({ captures[i][1] : i \in 1..3 }) = 2
  /\ Len(listing) = 3
  /\ listing[2].uri = << "screenshot", "://" >> \o captures[1][1]

\* C11: an answer to a read of the URI the listing reports for a stored
\* screenshot name holds the payload stored under that name, whatever
\* characters the name holds; an answer to a read of a URI that is neither
\* console://logs nor the URI of a stored screenshot is the not-found error.
C11_ReadReturnsTheListedScreenshot ==
  (reading.kind # "none" /\ reading.uri # ConsoleDescriptor.uri)
  => LET named == { name \in StoredNames(screenshots) :
                      ScreenshotDescriptor(name).uri = reading.uri }
     IN IF named = {}
        THEN reading.kind = "error"
        ELSE /\ reading.kind = "contents"
             /\ \A name \in named :
                  reading.body = << ScreenshotsGet(screenshots, name) >>

\* the lines of a text: its pieces between the line feeds; no line in no text
RECURSIVE Lines(_)
Lines(text) ==
  IF text = << >> THEN << >>
  ELSE IF \A i \in 1..Len(text) : text[i] # "\n"
       THEN << text >>
       ELSE LET at == CHOOSE i \in 1..Len(text) :
                        text[i] = "\n" /\ \A j \in 1..(i - 1) : text[j] # "\n"
            IN << SubSeq(text, 1, at - 1) >>
               \o (IF at = Len(text) THEN << << >> >>
                   ELSE Lines(SubSeq(text, at + 1, Len(text))))

\* C12: an answer to a read of console://logs after N console events holds
\* exactly N lines, the i-th being '[Session <id>][<level>] <text>' of the
\* i-th event, with the identifier of the session whose page raised it.
C12_ConsoleReadHasOneLinePerEvent ==
  (reading.kind # "none" /\ reading.uri = ConsoleDescriptor.uri)
  => /\ reading.kind = "contents"
     /\ Len(Lines(reading.body)) = Len(raised)
     /\ \A i \in 1..Len(raised) :
          Lines(reading.body)[i]
            = LogEntry(raised[i][1], raised[i][2], raised[i][3])

\* the same for events whose text is one line
C12_HoldsForOneLineTexts ==
  (/\ reading.kind # "none"
   /\ reading.uri = ConsoleDescriptor.uri
   /\ \A i \in 1..Len(raised) : \A j \in 1..Len(raised[i][3]) : raised[i][3][j] # "\n")
  => /\ Len(Lines(reading.body)) = Len(raised)
     /\ \A i \in 1..Len(raised) :
          Lines(reading.body)[i]
            = LogEntry(raised[i][1], raised[i][2], raised[i][3])

\* call c has just returned the envelope of a screenshot that was stored
StoredNow(c) ==
  /\ calls'[c].pc = "returned"
  /\ calls'[c].result.kind = "envelope"
  /\ ~calls'[c].result.isError

\* C13: the step in which page.$ finds no element for a screenshot call
\* returns the envelope with isError true and the not-found message and
\* leaves the screenshot map, the console log and the notifications as they
\* were; so does every other step of a screenshot call but the one that
\* stores its screenshot.
C13_NoElementLeavesTheCatalogUnchanged ==
  [][\A c \in Calls :
       /\ (/\ calls[c].pc = "screenshot_query"
           /\ calls'[c].pc = "returned"
           /\ calls'[c].result.kind # "thrown")
          => /\ calls'[c].result = Envelope(TRUE, "Element not found", "selector")
             /\ screenshots' = screenshots
             /\ consoleLogs' = consoleLogs
             /\ notifications' = notifications
       /\ (/\ calls'[c].name = "puppeteer_screenshot"
           /\ calls'[c].pc \notin {calls[c].pc, "forgotten"}
           /\ ~StoredNow(c))
          => /\ screenshots' = screenshots
             /\ consoleLogs' = consoleLogs
             /\ notifications' = notifications]_vars

\* a screenshot call found no element for its selector and has returned,
\* while an earlier artifact is stored under its name
C13_Witness ==
  \E c \in Calls :
    /\ Returned(c)
    /\ calls[c].name = "puppeteer_screenshot"
    /\ calls[c].args.selector
    /\ calls[c].failure = Failed("action", "$")
    /\ calls[c].result = Envelope(TRUE, "Element not found", "selector")
    /\ ScreenshotsHas(screenshots, calls[c].args.name)
    /\ Len(captures) = 1
    /\ Len(consoleLogs) = 1
    /\ Len(notifications) = 2

\* C14: a step that appends to the console log hands exactly one console-log
\* message notification to the transport, carrying the appended line; a step
\* that stores a screenshot hands over exactly one resource-list-changed
\* notification; no other step emits a notification.
C14_EveryWriteIsNotifiedOnce ==
  [][/\ consoleLogs' # consoleLogs
        => /\ Len(consoleLogs') = Len(consoleLogs) + 1
           /\ notifications'
                = Append(notifications, CloudMessage(consoleLogs'[Len(consoleLogs')]))
     /\ captures' # captures
        => notifications' = Append(notifications, ListChanged)
     /\ notifications' # notifications
        => consoleLogs' # consoleLogs \/ captures' # captures]_vars

\* a console event, a screenshot store and another console event, in this
\* order, each notified
C14_Witness ==
  /\ Len(consoleLogs) = 2
  /\ Len(captures) = 1
  /\ Len(notifications) = 3
  /\ notifications[1] = CloudMessage(consoleLogs[1])
  /\ notifications[2] = ListChanged
  /\ notifications[3] = CloudMessage(consoleLogs[2])
  /\ consoleLogs[1] # consoleLogs[2]

\* C15: every write has handed exactly one notification to the transport,
\* however many deliveries failed; the step in which a delivery fails sends
\* nothing again, changes no call's result and leaves the screenshot map and
\* the console log as they were; and a screenshot call returns its success
\* envelope before the delivery of its notification can have failed.
C15_DeliveryFailureChangesNothing ==
  /\ [](/\ Len(notifications) = Len(consoleLogs) + Len(captures)
        /\ undelivered \subseteq 1..Len(notifications)
        /\ \A c \in Calls :
             (/\ Returned(c)
              /\ calls[c].name = "puppeteer_screenshot"
              /\ calls[c].result.kind = "envelope"
              /\ ~calls[c].result.isError)
             => /\ notifications[Len(notifications)] = ListChanged
                /\ Len(notifications) \notin undelivered
                /\ calls[c].result.image = captures[Len(captures)][2]
                /\ ScreenshotsGet(screenshots, calls[c].args.name)
                     = calls[c].result.image)
  /\ [][undelivered' # undelivered
          => /\ notifications' = notifications
             /\ screenshots' = screenshots
             /\ consoleLogs' = consoleLogs
             /\ \A c \in Calls :
                  \/ calls'[c].result = calls[c].result
                  \/ calls'[c].pc = "forgotten"]_vars

\* the delivery of the notification of a stored screenshot and that of a
\* console event have failed; the artifact is stored and nothing was re-sent
C15_Witness ==
  /\ Len(notifications) = 2
  /\ undelivered = {1, 2}
  /\ \E i \in undelivered : notifications[i] = ListChanged
  /\ \E i \in undelivered : notifications[i].method = "notifications/cloud/message"
  /\ Len(captures) = 1
  /\ ScreenshotsGet(screenshots, captures[1][1]) = captures[1][2]

\* C16: the console methods of every page are the ones installed before any
\* script-execution call whenever no page function is running, so also when
\* a script-execution call returns, with a value or with the script's throw;
\* a call whose script threw returns the envelope with isError true and the
\* script's error message.
C16_ConsoleIsRestored ==
  /\ \A k \in 1..Len(conns) : conns[k].console = NativeConsole
  /\ \A c \in Calls :
       (/\ Returned(c)
        /\ calls[c].name = "puppeteer_evaluate"
        /\ calls[c].failure = Failed("action", "evaluate"))
       => calls[c].result = Envelope(TRUE, "Script execution failed", "evaluate")

\* a script-execution call whose script threw has returned
C16_Witness ==
  \E c \in Calls :
    /\ Returned(c)
    /\ calls[c].name = "puppeteer_evaluate"
    /\ calls[c].failure = Failed("action", "evaluate")
    /\ calls[c].result.isError
    /\ browsers[calls[c].args.sessionId] # 0
    /\ conns[browsers[calls[c].args.sessionId]].console = NativeConsole

\* C17: once the registry maps a session identifier to a pair, no step
\* removes the entry or replaces it by another pair.
C17_RegistryEntryIsKept ==
  [][\A s \in Keys : browsers[s] # 0 => browsers'[s] = browsers[s]]_vars

\* C18: an item of a bulk call opens a connection only if the registry holds
\* no entry for the item's id, and two items of one call that carry the same
\* id do not both open a connection.
C18_BulkItemsResolveViaTheRegistry ==
  /\ [](\A c \in Calls : \A i, j \in 1..Len(calls[c].items) :
          (/\ i # j
           /\ calls[c].items[i].id = calls[c].items[j].id
           /\ calls[c].items[i].conn # 0)
          => calls[c].items[j].conn = 0)
  /\ [][\A c \in Calls : \A i \in 1..Len(calls[c].items) :
          (/\ Len(calls'[c].items) = Len(calls[c].items)
           /\ calls[c].items[i].conn = 0
           /\ calls'[c].items[i].conn # 0)
          => browsers[calls[c].items[i].id] = 0]_vars

\* the names of the history h of stores, in the order of their first store
RECURSIVE FirstStored(_)
FirstStored(h) ==
  IF h = << >> THEN << >>
  ELSE LET before == FirstStored(SubSeq(h, 1, Len(h) - 1))
           name == h[Len(h)][1]
       IN IF \E i \in 1..Len(before) : before[i] = name
          THEN before
          ELSE Append(before, name)

\* the listing of the console descriptor and then the names, in order
ListingOf(names) ==
  << ConsoleDescriptor >> \o [i \in 1..Len(names) |-> ScreenshotDescriptor(names[i])]

\* C19: the listing holds the console-log descriptor first and then one
\* descriptor per stored screenshot name, in the order in which the names
\* were first stored; a capture under a stored name moves no name.
C19_ListingKeepsFirstStoredOrder ==
  /\ ScreenshotsKeys(screenshots) = FirstStored(captures)
  /\ ListResources(screenshots) = ListingOf(FirstStored(captures))
  /\ listing # << >> => listing = ListingOf(FirstStored(captures))

\* a listing sent after a name was stored, then another, then the first again
C19_Witness ==
  /\ Len(captures) = 3
  /\ captures[1][1] = captures[3][1]
  /\ captures[2][1] # captures[1][1]
  /\ listing = << ConsoleDescriptor, ScreenshotDescriptor(captures[1][1]),
                  ScreenshotDescriptor(captures[2][1]) >>

\* C20: across every step the console log before the step is a prefix of the
\* log after it; a step that changes the log appends one entry, is a step of
\* no tool call and of no resource read, and the entry is the formatted line
\* of an event on a page whose session is stored in the registry with the
\* console subscription installed.
C20_ConsoleLogIsAppendOnly ==
  [][/\ Len(consoleLogs') >= Len(consoleLogs)
     /\ SubSeq(consoleLogs', 1, Len(consoleLogs)) = consoleLogs
     /\ consoleLogs' # consoleLogs
        => /\ Len(consoleLogs') = Len(consoleLogs) + 1
           /\ \A c \in Calls : calls'[c].pc \in {calls[c].pc, "forgotten"}
           /\ reading' = NoReading
           /\ listing' = << >>
           /\ \E k \in 1..Len(conns) :
              \E msg \in CatalogMessages \cup (MsgTypes \X { << "text" >> }) :
                /\ conns[k].listener
                /\ conns[k].registered
                /\ consoleLogs'[Len(consoleLogs')]
                     = LogEntry(conns[k].sessionId, msg[1], msg[2])]_vars

\* the log holds the entries of two events from two sessions, a screenshot
\* was stored, and the log has just been read
C20_Witness ==
  /\ Len(consoleLogs) = 2
  /\ raised[1][1] # raised[2][1]
  /\ consoleLogs[1] # consoleLogs[2]
  /\ Len(captures) = 1
  /\ reading.kind = "contents"
  /\ reading.uri = ConsoleDescriptor.uri

\* C21: a document-collaboration call is independent of every session: it
\* opens no connection to the Capability Provider, never waits on the
\* default-session line, and returns the envelope its arguments and the
\* collaboration provider's response determine, whatever the registry holds
\* and whatever the Capability Provider does.
C21_NotionCallIsIndependentOfSessions ==
  \A c \in Calls :
    LET r == calls[c] IN
    r.name \in NotionTools
    => /\ r.pc \notin {"resolve_connect", "resolve_pages"}
       /\ r.opened = {}
       /\ Returned(c)
          => /\ r.result.kind = "envelope"
             /\ r.result.text[1] \in {NotionSuccess(r.name), NotionFailure(r.name)}
             /\ r.failure.phase # "resolve"

\* call c has returned the success envelope of a stored screenshot
TookScreenshot(c) ==
  /\ Returned(c)
  /\ calls[c].name = "puppeteer_screenshot"
  /\ calls[c].result.kind = "envelope"
  /\ ~calls[c].result.isError

\* C22: a screenshot call that succeeds reports the width and height it asked
\* for, whatever dimensions the page held when the capture was taken; the two
\* are the same when no other call was in flight during the call, and a call
\* running alone still finds its own dimensions on the page after its
\* setViewport.  (That they can differ under an overlapping call on the same
\* session is the reachable state C22_Witness.)
C22_SuccessTextReportsRequestedSize ==
  \A c \in Calls :
    LET r == calls[c] IN
    /\ TookScreenshot(c)
       => /\ r.result.text = << "Screenshot taken", Requested(r.args) >>
          /\ r.solo => r.shotAt = Requested(r.args)
    /\ (r.pc \in {"screenshot_query", "screenshot_capture"} /\ r.solo)
       => conns[r.defaultSession].viewport = Requested(r.args)

\* two screenshot calls on one session asked for different dimensions; one
\* has returned its success envelope for a capture taken while the page held
\* the other's dimensions, and its text reports its own
C22_Witness ==
  \E c, d \in Calls :
    /\ c # d
    /\ TookScreenshot(c)
    /\ calls[d].name = "puppeteer_screenshot"
    /\ calls[d].pc \in {"screenshot_query", "screenshot_capture"}
    /\ calls[d].args.sessionId = calls[c].args.sessionId
    /\ Requested(calls[d].args) # Requested(calls[c].args)
    /\ calls[c].shotAt = Requested(calls[d].args)
    /\ calls[c].result.text[2] = Requested(calls[c].args)
    /\ conns[calls[d].defaultSession].viewport = Requested(calls[d].args)

\* the scan the claim describes, from index i on: a closing brace with no
\* opening brace before it is passed over
RECURSIVE BalancedFrom(_, _, _, _, _)
BalancedFrom(text, i, depth, start, found) ==
  IF i > Len(text) THEN found
  ELSE IF text[i] = "{"
       THEN BalancedFrom(text, i + 1, depth + 1, IF depth = 0 THEN i ELSE start, found)
       ELSE IF text[i] = "}" /\ depth > 0
            THEN IF depth = 1
                 THEN LET parsed == JSONParse(SubSeq(text, start, i)) IN
                      BalancedFrom(text, i + 1, 0, start,
                                   IF parsed = -1 THEN found ELSE Append(found, parsed))
                 ELSE BalancedFrom(text, i + 1, depth - 1, start, found)
            ELSE BalancedFrom(text, i + 1, depth, start, found)

\* the values of the balanced top-level brace-delimited substrings of text
\* that parse, in order of occurrence
BalancedValues(text) == BalancedFrom(text, 1, 0, -1, << >>)

\* C23: a structured-data extraction call that returns its result returns,
\* for the text the page held, the value of every balanced top-level
\* brace-delimited substring that parses, in order of occurrence, whatever
\* malformed or unbalanced fragments the text holds besides.
C23_ScannerFindsEveryBalancedObject ==
  \A c \in Calls :
    (/\ Returned(c)
     /\ calls[c].name = "puppeteer_get_json"
     /\ ~calls[c].result.isError
     /\ calls[c].result.kind = "envelope")
    => calls[c].result.text[2] = BalancedValues(calls[c].scanned)

\* call c is suspended at an await
Awaiting(c) == calls[c].pc \notin {"idle", "returned", "forgotten", "hung"}

\* C24: a call whose own remote calls settle returns its result (an envelope
\* or a rejection), whatever fails or never settles in the other calls: a
\* call that is suspended is later returned, unless its own remote call is
\* the one that never settles; and while a call is suspended for good the
\* server still takes the next call.
C24_CallsReturnIndependently ==
  /\ \A c \in Calls : Awaiting(c) ~> (Returned(c) \/ calls[c].pc = "hung")
  /\ [](\A c \in 1..MaxMixed :
          (/\ Hung # {}
           /\ calls[c].pc = "idle"
           /\ c > 1 => calls[c - 1].pc # "idle")
          => ENABLED HandleLiveCall(c))

\* a remote call of a call on one session never settles, and a call on
\* another session that arrived later has returned its success envelope
C24_Witness ==
  \E c, d \in Calls :
    /\ d < c
    /\ calls[d].pc = "hung"
    /\ calls[d].args.sessionId # calls[c].args.sessionId
    /\ Returned(c)
    /\ calls[c].name \in LiveTools \ {"puppeteer_close", "notion_read_page"}
    /\ calls[c].result.kind = "envelope"
    /\ ~calls[c].result.isError

\* C25: no step of a call with an unknown tool name changes the session
\* registry, the console log or the screenshot map, and none opens a
\* connection to the Capability Provider.
C25_UnknownToolChangesNothing ==
  [][\A c \in Calls :
       (/\ calls'[c].name \in UnknownTools
        /\ calls'[c].pc \notin {calls[c].pc, "forgotten"})
       => /\ browsers' = browsers
          /\ conns' = conns
          /\ consoleLogs' = consoleLogs
          /\ screenshots' = screenshots]_vars

\* C26: every registry entry has a usable page handle with the console
\* subscription installed: a session creation that fails, at the connect, at
\* the retrieval of the pages or for want of a default page, stores no entry.
C26_FailedCreationStoresNoEntry ==
  \A s \in Keys :
    browsers[s] # 0
    => /\ conns[browsers[s]].page = "page"
       /\ conns[browsers[s]].listener

\* call c was dispatched to a case of the switch other than the default one
Dispatched(c) ==
  /\ calls[c].pc \notin {"idle", "forgotten", "resolve_connect", "resolve_pages"}
  /\ calls[c].result # Envelope(TRUE, "Unknown tool", calls[c].name)
  /\ calls[c].failure.phase # "resolve"

\* C27: the names the list-tools operation returns are the names
\* handleToolCall dispatches to a handler: a call under a listed name is never
\* answered 'Unknown tool', and a call that reached a handler carries a
\* listed name.
C27_ListedToolsAreTheHandledTools ==
  \A c \in Calls :
    /\ (Returned(c) /\ calls[c].name \in ListTools /\ calls[c].failure.phase # "resolve")
       => Dispatched(c)
    /\ Dispatched(c) => calls[c].name \in ListTools

====
